---- MODULE Spec2Model ----
(***************************************************************************)
(* Model of the r2-upload-action upload engine (src/src/index.ts):         *)
(* the run driver, the multipart orchestrator uploadMultiPart, the         *)
(* single-shot uploader putObject, the chunk reader readFixedChunkSize and *)
(* the completion handlers attached to run(config).                        *)
(*                                                                         *)
(* The program is one async control flow; every action is the code between *)
(* two suspension points, a store call being taken together with its       *)
(* outcome (fulfilled, or rejected with some error).                       *)
(***************************************************************************)
EXTENDS Integers, Sequences, FiniteSets, TLC

VARIABLES
    config,      \* the R2Config resolved at start-up (index.ts 26-36)
    inputs,      \* the action inputs that index.ts does not put in config
    store,       \* the bucket: the objects the store holds, by key
    runNo,       \* the number of the run of the action on this bucket
    files,       \* the result of getFileList(config.sourceDir)
    pc,          \* position of the control flow
    i,           \* index in files of the file the for-loop of run is at
    urls,        \* run: the FileMap urls, as a set of <<file index, url>>
    err,         \* the error thrown by the current upload (in flight to catch)
    rejection,   \* the reason run(config) rejected with
    created,     \* uploadMultiPart: created.UploadId is defined
    Parts,       \* uploadMultiPart: multiPartMap.Parts
    partNumber,  \* uploadMultiPart: partNumber
    retries,     \* uploadMultiPart: retries
    bytesRead,   \* uploadMultiPart: bytesRead
    chunk,       \* uploadMultiPart: the chunk the loop body works on
    reader,      \* readFixedChunkSize: position, stream offset and buffer
    yielded,     \* history: the buffers readFixedChunkSize yielded, in order
    inFlight,    \* the store calls issued and not yet settled
    calls,       \* history: the store calls made for file i, in order
    storeCalls,  \* history: number of store calls made for each file
    invoked,     \* history: the uploaders called for each file, in order
    sessions,    \* history: per file, the state of its multipart session
    thrown,      \* history: per file, the error its upload threw
    outcome,     \* history: per file, pending/excluded/ok/skipped/failed
    outputs,     \* the setOutput / setFailed calls, in order
    destroyed    \* number of S3.destroy() calls

vars == <<config, inputs, store, runNo, files, pc, i, urls, err, rejection,
          created, Parts, partNumber, retries, bytesRead, chunk, reader,
          yielded, inFlight, calls, storeCalls, invoked, sessions, thrown,
          outcome, outputs, destroyed>>

multiVars == <<created, Parts, partNumber, retries, bytesRead, chunk, yielded,
               reader>>
histVars == <<calls, storeCalls, invoked, sessions, thrown, outcome>>
endVars == <<outputs, destroyed, rejection>>

----------------------------------------------------------------------------
(* Program constants *)

MB == 1024 * 1024

chunkSize == 10 * 1024 * 1024

DefaultMultiPartSize == 100

DefaultMaxTries == 5

PreconditionFailed == 412

(* Bounds of the model *)

MaxFiles == 2

MaxRuns == 2

----------------------------------------------------------------------------
(* Inputs *)

\* What parseInt(getInput(..)) can give: NaN or an integer.
NaN == [nan |-> TRUE, n |-> 0]

Num(n) == [nan |-> FALSE, n |-> n]

RawMultiPartSize == {NaN, Num(0), Num(1), Num(-1)}

RawMaxTries == {NaN, Num(0), Num(1), Num(2), Num(-1)}

\* `parseInt(..) || dflt`: NaN and 0 are falsy.
OrDefault(v, dflt) == IF v.nan \/ v.n = 0 THEN dflt ELSE v.n

\* Paths are sequences of segments; these are the segments that contain
\* the text '.gitkeep'.
KeepSegments == {".gitkeep", "out.gitkeep"}

SourceDirs == {<<"assets">>}

DestinationDirs == {<< >>, <<"out">>, <<"out.gitkeep">>}

\* A file: its path below sourceDir and its size in bytes.
FileNames == {<<"a.bin">>, <<"c.bin">>}

KeepNames == {<<"b", ".gitkeep">>}

FileSizes == {0, MB, MB + 1, 10 * MB, 15 * MB}

FileKinds ==
    [name : FileNames, size : FileSizes] \cup [name : KeepNames, size : {0}]

\* The listings getFileList can return: every path is listed once, the
\* entries of a directory in the order of their names.
NameOrder == << <<"a.bin">>, <<"b", ".gitkeep">>, <<"c.bin">> >>

Before(a, b) ==
    \E j, k \in DOMAIN NameOrder :
        j < k /\ NameOrder[j] = a /\ NameOrder[k] = b

FileLists ==
    {fl \in UNION {[1..n -> FileKinds] : n \in 0..MaxFiles} :
        \A j, k \in DOMAIN fl : j < k => Before(fl[j].name, fl[k].name)}

\* The sizes of the reads the file stream delivers (capped by what is left).
ReadSizes == {6 * MB, 16 * MB}

HttpStatuses == {PreconditionFailed, 500}

----------------------------------------------------------------------------
(* Errors *)

NoError == [meta |-> FALSE, status |-> 0, msg |-> <<"none", 0, 0>>]

\* An S3ServiceException: carries $metadata with the HTTP status.
ServiceError(op, f, status) ==
    [meta |-> TRUE, status |-> status, msg |-> <<op, f, 0>>]

\* Any other rejection of a call (no $metadata).
PlainError(op, f) == [meta |-> FALSE, status |-> 0, msg |-> <<op, f, 0>>]

\* new Error(`R2 Error - Failed to upload part ${partNumber} of ${file}`)
PartError(f, pn) ==
    [meta |-> FALSE, status |-> 0, msg |-> <<"Failed to upload part", f, pn>>]

\* The errors a store call `op` made for file f can reject with: the
\* store's answer with an HTTP status, or a failure without an answer.
CallErrors(op, f) ==
    {ServiceError(op, f, s) : s \in HttpStatuses} \cup {PlainError(op, f)}

\* getSignedUrl signs locally: it fails without an HTTP answer.
SignErrors(f) == {PlainError("getSignedUrl", f)}

----------------------------------------------------------------------------
(* Pure helpers of index.ts *)

\* fs.statSync(file).size / (1024 * 1024), kept as an exact fraction.
getFileSizeMB(file) == [num |-> file.size, den |-> 1024 * 1024]

\* q > n for a fraction q and an integer n.
GreaterThan(q, n) == q.num > n * q.den

\* file.replace(config.sourceDir, ""): file starts with sourceDir.
FileName(file, cfg) == SubSeq(file.path, Len(cfg.sourceDir) + 1, Len(file.path))

\* path.join(destinationDir !== "" ? destinationDir : sourceDir, fileName)
FileKey(file, cfg) ==
    (IF cfg.destinationDir # << >> THEN cfg.destinationDir ELSE cfg.sourceDir)
        \o FileName(file, cfg)

\* fileKey.includes('.gitkeep')
IncludesGitkeep(key) == \E j \in DOMAIN key : key[j] \in KeepSegments

\* A variant of ChooseUpload that sends a file at the threshold to the
\* multipart path (>= for >).
ChooseUploadAtThreshold(file, cfg) ==
    IF getFileSizeMB(file).num >= cfg.multiPartSize * getFileSizeMB(file).den
    THEN "uploadMultiPart" ELSE "putObject"

\* fileMB > config.multiPartSize ? uploadMultiPart : putObject
ChooseUpload(file, cfg) ==
    IF GreaterThan(getFileSizeMB(file), cfg.multiPartSize)
    THEN "uploadMultiPart" ELSE "putObject"

\* The condition of the retry loop: while (retries < config.maxTries)
RetryAllowed(r, cfg) == r < cfg.maxTries

\* A variant of RetriesExhausted that gives up one retry early.
RetriesExhaustedEarly(r, cfg) == r >= cfg.maxTries - 1

\* The test after the retry loop: if (retries >= config.maxTries)
RetriesExhausted(r, cfg) == r >= cfg.maxTries

\* A variant of IsSwallowed with the $metadata test inverted.
IsSwallowedInverted(e) == ~e.meta /\ e.status = PreconditionFailed

\* A variant of IsSwallowed without the test of the status code.
IsSwallowedAnyStatus(e) == e.meta

\* run's catch: the error is swallowed iff it has $metadata and its
\* httpStatusCode is 412; everything else is thrown again.
IsSwallowed(e) == e.meta /\ e.status = PreconditionFailed

\* err.message
Message(e) == e.msg

Min(a, b) == IF a < b THEN a ELSE b

----------------------------------------------------------------------------
(* Buffers are ranges of the file: [off, len] *)

EmptyBuffer == [off |-> 0, len |-> 0]

\* Buffer.concat([buffer, chunk]) for a chunk that follows buffer in the file
Concat(b, c) == IF b.len = 0 THEN c ELSE [off |-> b.off, len |-> b.len + c.len]

\* buffer.subarray(from, to), indices clamped to the buffer as Buffer does
Subarray(b, from, to) ==
    LET lo == Min(from, b.len)
        hi == Min(to, b.len)
    IN  [off |-> b.off + lo, len |-> IF hi > lo THEN hi - lo ELSE 0]

\* The reader before the first chunk is asked for.
NewReader == [state |-> "stream", pos |-> 0, buffer |-> EmptyBuffer]

NewSession == [created |-> FALSE, completes |-> 0, aborts |-> 0]

----------------------------------------------------------------------------
InitOver(lists) ==
    /\ \E src \in SourceDirs, dst \in DestinationDirs,
          mps \in RawMultiPartSize, mt \in RawMaxTries, out \in BOOLEAN :
          config = [sourceDir |-> src, destinationDir |-> dst,
                    outputFileUrl |-> out,
                    multiPartSize |-> OrDefault(mps, DefaultMultiPartSize),
                    maxTries |-> OrDefault(mt, DefaultMaxTries)]
    /\ inputs \in [multipartConcurrent : BOOLEAN]
    /\ store = {}
    /\ runNo = 1
    /\ \E fl \in lists :
          files = [j \in DOMAIN fl |->
                     [path |-> config.sourceDir \o fl[j].name,
                      size |-> fl[j].size]]
    /\ pc = "loop"
    /\ i = 0
    /\ urls = {}
    /\ err = NoError
    /\ rejection = NoError
    /\ created = FALSE
    /\ Parts = << >>
    /\ partNumber = 0
    /\ retries = 0
    /\ bytesRead = 0
    /\ chunk = EmptyBuffer
    /\ reader = NewReader
    /\ yielded = << >>
    /\ inFlight = {}
    /\ calls = << >>
    /\ storeCalls = [j \in DOMAIN files |-> 0]
    /\ invoked = [j \in DOMAIN files |-> << >>]
    /\ sessions = [j \in DOMAIN files |-> NewSession]
    /\ thrown = [j \in DOMAIN files |-> NoError]
    /\ outcome = [j \in DOMAIN files |-> "pending"]
    /\ outputs = << >>
    /\ destroyed = 0

Init == InitOver(FileLists)

----------------------------------------------------------------------------
(* History bookkeeping *)

\* A store call for the file the loop is at, appended to the histories.
Logged(op, pn, ok, parts) ==
    /\ calls' = Append(calls, [op |-> op, part |-> pn, ok |-> ok, parts |-> parts])
    /\ storeCalls' = [storeCalls EXCEPT ![i] = @ + 1]

\* The current upload throws e: control goes to the catch of run.
Throw(e) ==
    /\ err' = e
    /\ thrown' = [thrown EXCEPT ![i] = e]
    /\ pc' = "catch"

\* The store call the control flow is suspended on at position p, for file
\* f, part pn and r retries: every S3.send and getSignedUrl is awaited.
Awaited(p, f, pn, r, cfg) ==
    CASE p = "put" -> {[file |-> f, op |-> "put", part |-> 0]}
      [] p = "create" -> {[file |-> f, op |-> "create", part |-> 0]}
      [] p = "send" -> IF RetryAllowed(r, cfg)
                       THEN {[file |-> f, op |-> "uploadPart", part |-> pn]}
                       ELSE {}
      [] p = "abort" -> {[file |-> f, op |-> "abort", part |-> 0]}
      [] p = "complete" -> {[file |-> f, op |-> "complete", part |-> 0]}
      [] p \in {"sign", "signPut"} ->
            {[file |-> f, op |-> "getSignedUrl", part |-> 0]}
      [] OTHER -> {}

\* A variant of SetUrl that starts the map afresh.
SetUrlOnly(m, f, url) == {<<f, url>>}

\* urls[file] = fileUrl
SetUrl(m, f, url) == {p \in m : p[1] # f} \cup {<<f, url>>}

----------------------------------------------------------------------------
(* run: the for-loop over files (index.ts 97-125) *)

\* A keep-marker key: `continue`.
Exclude ==
    /\ pc = "loop"
    /\ i < Len(files)
    /\ IncludesGitkeep(FileKey(files[i + 1], config))
    /\ i' = i + 1
    /\ outcome' = [outcome EXCEPT ![i + 1] = "excluded"]
    /\ calls' = << >>
    /\ UNCHANGED <<config, inputs, store, runNo, files, pc, urls, err, multiVars, storeCalls,
                   invoked, sessions, thrown, endVars>>
    /\ inFlight' = Awaited(pc', i', partNumber', retries', config)

\* A variant of Dispatch that does not await the upload: the loop takes the
\* next file as soon as the uploader of the previous one is suspended on
\* its first store call.
DispatchNoAwait ==
    /\ pc \in {"loop", "put", "create"}
    /\ i < Len(files)
    /\ ~IncludesGitkeep(FileKey(files[i + 1], config))
    /\ i' = i + 1
    /\ LET upload == ChooseUpload(files[i + 1], config)
       IN  /\ invoked' = [invoked EXCEPT ![i + 1] = Append(@, upload)]
           /\ pc' = IF upload = "uploadMultiPart" THEN "create" ELSE "put"
    /\ calls' = << >>
    /\ err' = NoError
    /\ created' = FALSE
    /\ Parts' = << >>
    /\ partNumber' = 0
    /\ retries' = 0
    /\ bytesRead' = 0
    /\ chunk' = EmptyBuffer
    /\ yielded' = << >>
    /\ reader' = NewReader
    /\ UNCHANGED <<config, inputs, store, runNo, files, urls, storeCalls,
                   sessions, thrown, outcome, endVars>>
    /\ inFlight' = inFlight \cup Awaited(pc', i', partNumber', retries', config)

\* The next file is handed to the uploader chosen by its size; the uploader
\* runs up to its first store call.
Dispatch ==
    /\ pc = "loop"
    /\ i < Len(files)
    /\ ~IncludesGitkeep(FileKey(files[i + 1], config))
    /\ i' = i + 1
    /\ LET upload == ChooseUpload(files[i + 1], config)
       IN  /\ invoked' = [invoked EXCEPT ![i + 1] = Append(@, upload)]
           /\ pc' = IF upload = "uploadMultiPart" THEN "create" ELSE "put"
    /\ calls' = << >>
    /\ err' = NoError
    /\ created' = FALSE
    /\ Parts' = << >>
    /\ partNumber' = 0
    /\ retries' = 0
    /\ bytesRead' = 0
    /\ chunk' = EmptyBuffer
    /\ yielded' = << >>
    /\ reader' = NewReader
    /\ UNCHANGED <<config, inputs, store, runNo, files, urls, storeCalls, sessions, thrown, outcome,
                   endVars>>
    /\ inFlight' = Awaited(pc', i', partNumber', retries', config)

\* catch (err) of run: a 412 with $metadata is swallowed and the loop goes
\* on; anything else is thrown again and run rejects.
Catch ==
    /\ pc = "catch"
    /\ IF IsSwallowed(err)
       THEN /\ pc' = "loop"
            /\ outcome' = [outcome EXCEPT ![i] = "skipped"]
            /\ UNCHANGED rejection
       ELSE /\ pc' = "rejected"
            /\ outcome' = [outcome EXCEPT ![i] = "failed"]
            /\ rejection' = err
    /\ UNCHANGED <<config, inputs, store, runNo, files, i, urls, err, multiVars, calls, storeCalls,
                   invoked, sessions, thrown, outputs, destroyed>>
    /\ inFlight' = Awaited(pc', i', partNumber', retries', config)

\* A variant of EmitFileUrls that ignores the flag.
EmitFileUrlsAlways(outs, cfg, m) ==
    Append(outs, [name |-> "file-urls", value |-> m])

\* if (config.outputFileUrl) setOutput('file-urls', urls)
EmitFileUrls(outs, cfg, m) ==
    IF cfg.outputFileUrl
    THEN Append(outs, [name |-> "file-urls", value |-> m])
    ELSE outs

\* The loop is over: the url map is emitted and run resolves.
LoopEnd ==
    /\ pc = "loop"
    /\ i = Len(files)
    /\ outputs' = EmitFileUrls(outputs, config, urls)
    /\ pc' = "resolved"
    /\ UNCHANGED <<config, inputs, store, runNo, files, i, urls, err, multiVars, histVars,
                   destroyed, rejection>>
    /\ inFlight' = Awaited(pc', i', partNumber', retries', config)

----------------------------------------------------------------------------
(* The bucket, as putObject and uploadMultiPart use it *)

\* fs.readFileSync(file): the content of a file, which a run does not change
Content(file) == <<file.path, file.size>>

\* md5(fileStream)
md5(content) == [md5 |-> content]

\* A variant of IfNoneMatch that leaves out the quotes around the digest.
IfNoneMatchUnquoted(file) == md5(Content(file))

\* args.request.headers['if-none-match'] = `"${digest}"`
IfNoneMatch(file) == [quoted |-> md5(Content(file))]

\* The ETag the store gives an object written by one put: the quoted MD5
\* of its content.
PutETag(content) == [quoted |-> md5(content)]

\* The ETag of an object assembled from parts is not the MD5 of its content.
MultipartETag(content, nparts) == [quoted |-> [parts |-> nparts, of |-> content]]

\* The store rejects a put with 412 when the if-none-match header equals
\* the ETag of the object at the key.
StoreRejects(st, key, header) ==
    \E o \in st : o.key = key /\ o.etag = header

\* The bucket after an object is written at key.
Write(st, key, etag) ==
    {o \in st : o.key # key} \cup {[key |-> key, etag |-> etag]}

----------------------------------------------------------------------------
(* putObject (index.ts 210-237) *)

\* await S3.send(cmd) of the PutObjectCommand
PutOk ==
    /\ pc = "put"
    /\ ~StoreRejects(store, FileKey(files[i], config), IfNoneMatch(files[i]))
    /\ Logged("put", 0, TRUE, << >>)
    /\ store' = Write(store, FileKey(files[i], config),
                      PutETag(Content(files[i])))
    /\ pc' = "signPut"
    /\ UNCHANGED <<config, inputs, runNo, files, i, urls, err, multiVars, invoked, sessions,
                   thrown, outcome, endVars>>
    /\ inFlight' = Awaited(pc', i', partNumber', retries', config)

PutFail ==
    /\ pc = "put"
    /\ Logged("put", 0, FALSE, << >>)
    /\ \E e \in CallErrors("put", i) : Throw(e)
    /\ UNCHANGED <<config, inputs, store, runNo, files, i, urls, multiVars, invoked, sessions,
                   outcome, endVars>>
    /\ inFlight' = Awaited(pc', i', partNumber', retries', config)

\* return await getSignedUrl(S3, cmd) at position `at`, and
\* urls[file] = fileUrl in run
ReturnUrl(at) ==
    /\ pc = at
    /\ Logged("getSignedUrl", 0, TRUE, << >>)
    /\ urls' = SetUrl(urls, i, FileKey(files[i], config))
    /\ outcome' = [outcome EXCEPT ![i] = "ok"]
    /\ pc' = "loop"
    /\ UNCHANGED <<config, inputs, store, runNo, files, i, err, multiVars, invoked, sessions,
                   thrown, endVars>>
    /\ inFlight' = Awaited(pc', i', partNumber', retries', config)

SignFails(at) ==
    /\ pc = at
    /\ Logged("getSignedUrl", 0, FALSE, << >>)
    /\ \E e \in SignErrors(i) : Throw(e)
    /\ UNCHANGED <<config, inputs, store, runNo, files, i, urls, multiVars, invoked, sessions,
                   outcome, endVars>>
    /\ inFlight' = Awaited(pc', i', partNumber', retries', config)

PutSignOk == ReturnUrl("signPut")

PutSignFail == SignFails("signPut")

----------------------------------------------------------------------------
(* readFixedChunkSize (index.ts 239-255), driven by the for-await of        *)
(* uploadMultiPart (index.ts 157-167)                                       *)

\* The for-await of uploadMultiPart receives chunk c and starts its body:
\* PartNumber: ++partNumber, let retries = 0.
BeginPart(c) ==
    /\ chunk' = c
    /\ yielded' = Append(yielded, c)
    /\ partNumber' = partNumber + 1
    /\ retries' = 0
    /\ pc' = "send"

\* for await (const chunk of stream): the stream delivers its next read.
StreamRead ==
    /\ pc = "read"
    /\ reader.state = "stream"
    /\ reader.pos < files[i].size
    /\ \E n \in ReadSizes :
          LET m == Min(n, files[i].size - reader.pos)
          IN  reader' = [state |-> "while", pos |-> reader.pos + m,
                         buffer |-> Concat(reader.buffer,
                                           [off |-> reader.pos, len |-> m])]
    /\ UNCHANGED <<config, inputs, store, runNo, files, pc, i, urls, err, created, Parts, partNumber,
                   retries, bytesRead, chunk, yielded, histVars, endVars>>
    /\ inFlight' = Awaited(pc', i', partNumber', retries', config)

\* The stream is at the end of the file.
StreamEnd ==
    /\ pc = "read"
    /\ reader.state = "stream"
    /\ reader.pos >= files[i].size
    /\ reader' = [reader EXCEPT !.state = "tail"]
    /\ UNCHANGED <<config, inputs, store, runNo, files, pc, i, urls, err, created, Parts, partNumber,
                   retries, bytesRead, chunk, yielded, histVars, endVars>>
    /\ inFlight' = Awaited(pc', i', partNumber', retries', config)

\* while (buffer.length >= chunkSize) yield buffer.subarray(0, chunkSize)
ReaderWhile ==
    /\ pc = "read"
    /\ reader.state = "while"
    /\ IF reader.buffer.len >= chunkSize
       THEN /\ reader' = [reader EXCEPT !.state = "yielded"]
            /\ BeginPart(Subarray(reader.buffer, 0, chunkSize))
       ELSE /\ reader' = [reader EXCEPT !.state = "stream"]
            /\ UNCHANGED <<pc, partNumber, retries, chunk, yielded>>
    /\ UNCHANGED <<config, inputs, store, runNo, files, i, urls, err, created, Parts, bytesRead,
                   histVars, endVars>>
    /\ inFlight' = Awaited(pc', i', partNumber', retries', config)

\* The reader is resumed after a yield: buffer = buffer.subarray(chunkSize)
ReaderResume ==
    /\ pc = "read"
    /\ reader.state = "yielded"
    /\ reader' = [reader EXCEPT
                    !.state = "while",
                    !.buffer = Subarray(reader.buffer, chunkSize,
                                        reader.buffer.len)]
    /\ UNCHANGED <<config, inputs, store, runNo, files, pc, i, urls, err, created, Parts, partNumber,
                   retries, bytesRead, chunk, yielded, histVars, endVars>>
    /\ inFlight' = Awaited(pc', i', partNumber', retries', config)

\* A variant of ReaderTail that yields what is left in the buffer even when
\* nothing is left.
ReaderTailAlways ==
    /\ pc = "read"
    /\ reader.state = "tail"
    /\ reader' = [reader EXCEPT !.state = "yieldedTail"]
    /\ BeginPart(reader.buffer)
    /\ UNCHANGED <<config, inputs, store, runNo, files, i, urls, err, created, Parts, bytesRead,
                   histVars, endVars>>
    /\ inFlight' = Awaited(pc', i', partNumber', retries', config)

\* if (buffer.length > 0) yield buffer; otherwise the reader returns and
\* the for-await of uploadMultiPart ends.
ReaderTail ==
    /\ pc = "read"
    /\ reader.state = "tail"
    /\ IF reader.buffer.len > 0
       THEN /\ reader' = [reader EXCEPT !.state = "yieldedTail"]
            /\ BeginPart(reader.buffer)
       ELSE /\ reader' = [reader EXCEPT !.state = "end"]
            /\ pc' = "complete"
            /\ UNCHANGED <<partNumber, retries, chunk, yielded>>
    /\ UNCHANGED <<config, inputs, store, runNo, files, i, urls, err, created, Parts, bytesRead,
                   histVars, endVars>>
    /\ inFlight' = Awaited(pc', i', partNumber', retries', config)

\* The reader is resumed after its last yield and returns.
ReaderReturn ==
    /\ pc = "read"
    /\ reader.state = "yieldedTail"
    /\ reader' = [reader EXCEPT !.state = "end"]
    /\ pc' = "complete"
    /\ UNCHANGED <<config, inputs, store, runNo, files, i, urls, err, created, Parts, partNumber,
                   retries, bytesRead, chunk, yielded, histVars, endVars>>
    /\ inFlight' = Awaited(pc', i', partNumber', retries', config)

----------------------------------------------------------------------------
(* uploadMultiPart (index.ts 130-207) *)

\* const created = await S3.send(cmd) of the CreateMultipartUploadCommand
CreateOk ==
    /\ pc = "create"
    /\ Logged("create", 0, TRUE, << >>)
    /\ created' = TRUE
    /\ sessions' = [sessions EXCEPT ![i].created = TRUE]
    /\ reader' = NewReader
    /\ pc' = "read"
    /\ UNCHANGED <<config, inputs, store, runNo, files, i, urls, err, Parts, partNumber, retries,
                   bytesRead, chunk, yielded, invoked, thrown, outcome, endVars>>
    /\ inFlight' = Awaited(pc', i', partNumber', retries', config)

CreateFail ==
    /\ pc = "create"
    /\ Logged("create", 0, FALSE, << >>)
    /\ \E e \in CallErrors("create", i) : Throw(e)
    /\ UNCHANGED <<config, inputs, store, runNo, files, i, urls, multiVars, invoked, sessions,
                   outcome, endVars>>
    /\ inFlight' = Awaited(pc', i', partNumber', retries', config)

\* What follows the retry loop when it is left with r retries: the abort
\* branch, or the rest of the loop body and the next chunk.
AfterRetryLoop(r, cfg) == IF RetriesExhausted(r, cfg) THEN "abort" ELSE "read"

\* A variant of PushPart that numbers the parts from 0.
PushPartZeroBased(parts, pn, etag) ==
    Append(parts, [PartNumber |-> pn - 1, ETag |-> etag])

\* multiPartMap.Parts.push({ PartNumber: partNumber, ETag: result.ETag })
PushPart(parts, pn, etag) == Append(parts, [PartNumber |-> pn, ETag |-> etag])

\* An attempt of the retry loop succeeds: the part is pushed, `break`.
UploadPartOk ==
    /\ pc = "send"
    /\ RetryAllowed(retries, config)
    /\ Logged("uploadPart", partNumber, TRUE, << >>)
    /\ Parts' = PushPart(Parts, partNumber, Len(calls) + 1)
    /\ pc' = AfterRetryLoop(retries, config)
    /\ bytesRead' = IF RetriesExhausted(retries, config)
                    THEN bytesRead ELSE bytesRead + chunk.len
    /\ UNCHANGED <<config, inputs, store, runNo, files, i, urls, err, created, partNumber, retries,
                   chunk, yielded, reader, invoked, sessions, thrown, outcome, endVars>>
    /\ inFlight' = Awaited(pc', i', partNumber', retries', config)

\* An attempt of the retry loop fails: retries++, sleep, next turn.
UploadPartFail ==
    /\ pc = "send"
    /\ RetryAllowed(retries, config)
    /\ Logged("uploadPart", partNumber, FALSE, << >>)
    /\ retries' = retries + 1
    /\ UNCHANGED <<config, inputs, store, runNo, files, pc, i, urls, err, created, Parts, partNumber,
                   bytesRead, chunk, yielded, reader, invoked, sessions, thrown,
                   outcome, endVars>>
    /\ inFlight' = Awaited(pc', i', partNumber', retries', config)

\* The retry loop ends on its condition.
RetryLoopExit ==
    /\ pc = "send"
    /\ ~RetryAllowed(retries, config)
    /\ pc' = AfterRetryLoop(retries, config)
    /\ bytesRead' = IF RetriesExhausted(retries, config)
                    THEN bytesRead ELSE bytesRead + chunk.len
    /\ UNCHANGED <<config, inputs, store, runNo, files, i, urls, err, created, Parts, partNumber,
                   retries, chunk, yielded, reader, histVars, endVars>>
    /\ inFlight' = Awaited(pc', i', partNumber', retries', config)

\* A variant of AbortOk without the throw after the abort: the for-await
\* goes on to the next chunk.
AbortOkNoThrow ==
    /\ pc = "abort"
    /\ Logged("abort", 0, TRUE, << >>)
    /\ sessions' = [sessions EXCEPT ![i].aborts = @ + 1]
    /\ pc' = "read"
    /\ UNCHANGED <<config, inputs, store, runNo, files, i, urls, err, multiVars, invoked,
                   thrown, outcome, endVars>>
    /\ inFlight' = Awaited(pc', i', partNumber', retries', config)

\* await S3.send(cmd) of the AbortMultipartUploadCommand, then
\* throw new Error(`R2 Error - Failed to upload part ...`)
AbortOk ==
    /\ pc = "abort"
    /\ Logged("abort", 0, TRUE, << >>)
    /\ sessions' = [sessions EXCEPT ![i].aborts = @ + 1]
    /\ Throw(PartError(i, partNumber))
    /\ UNCHANGED <<config, inputs, store, runNo, files, i, urls, multiVars, invoked, outcome,
                   endVars>>
    /\ inFlight' = Awaited(pc', i', partNumber', retries', config)

\* The abort call rejects: its error leaves uploadMultiPart.
AbortFail ==
    /\ pc = "abort"
    /\ Logged("abort", 0, FALSE, << >>)
    /\ sessions' = [sessions EXCEPT ![i].aborts = @ + 1]
    /\ \E e \in CallErrors("abort", i) : Throw(e)
    /\ UNCHANGED <<config, inputs, store, runNo, files, i, urls, multiVars, invoked, outcome,
                   endVars>>
    /\ inFlight' = Awaited(pc', i', partNumber', retries', config)

\* await S3.send(completeCmd)
CompleteOk ==
    /\ pc = "complete"
    /\ Logged("complete", 0, TRUE, Parts)
    /\ sessions' = [sessions EXCEPT ![i].completes = @ + 1]
    /\ store' = Write(store, FileKey(files[i], config),
                      MultipartETag(Content(files[i]), Len(Parts)))
    /\ pc' = "sign"
    /\ UNCHANGED <<config, inputs, runNo, files, i, urls, err, multiVars, invoked, thrown,
                   outcome, endVars>>
    /\ inFlight' = Awaited(pc', i', partNumber', retries', config)

CompleteFail ==
    /\ pc = "complete"
    /\ Logged("complete", 0, FALSE, Parts)
    /\ \E e \in CallErrors("complete", i) : Throw(e)
    /\ UNCHANGED <<config, inputs, store, runNo, files, i, urls, multiVars, invoked, sessions,
                   outcome, endVars>>
    /\ inFlight' = Awaited(pc', i', partNumber', retries', config)

MultiSignOk == ReturnUrl("sign")

MultiSignFail == SignFails("sign")

----------------------------------------------------------------------------
(* The handlers attached to run(config) (index.ts 257-268) *)

Output(name, value) == [name |-> name, value |-> value]

\* .then(() => setOutput('result', 'success'))
Then ==
    /\ pc = "resolved"
    /\ outputs' = Append(outputs, Output("result", "success"))
    /\ pc' = "finally"
    /\ UNCHANGED <<config, inputs, store, runNo, files, i, urls, err, multiVars, histVars,
                   destroyed, rejection>>
    /\ inFlight' = Awaited(pc', i', partNumber', retries', config)

\* A variant of CatchHandler that marks the step failed without the
\* 'result' output.
CatchHandlerNoResult ==
    /\ pc = "rejected"
    /\ outputs' = Append(outputs, Output("setFailed", Message(rejection)))
    /\ pc' = "finally"
    /\ UNCHANGED <<config, inputs, store, runNo, files, i, urls, err, multiVars, histVars,
                   destroyed, rejection>>
    /\ inFlight' = Awaited(pc', i', partNumber', retries', config)

\* .catch(err => { setOutput('result', 'failure'); setFailed(err.message) })
CatchHandler ==
    /\ pc = "rejected"
    /\ outputs' = outputs \o <<Output("result", "failure"),
                               Output("setFailed", Message(rejection))>>
    /\ pc' = "finally"
    /\ UNCHANGED <<config, inputs, store, runNo, files, i, urls, err, multiVars, histVars,
                   destroyed, rejection>>
    /\ inFlight' = Awaited(pc', i', partNumber', retries', config)

\* .finally(() => S3.destroy())
Finally ==
    /\ pc = "finally"
    /\ destroyed' = destroyed + 1
    /\ pc' = "done"
    /\ UNCHANGED <<config, inputs, store, runNo, files, i, urls, err, multiVars, histVars,
                   outputs, rejection>>
    /\ inFlight' = Awaited(pc', i', partNumber', retries', config)

----------------------------------------------------------------------------
Next ==
    \/ Exclude
    \/ Dispatch
    \/ Catch
    \/ LoopEnd
    \/ PutOk
    \/ PutFail
    \/ PutSignOk
    \/ PutSignFail
    \/ CreateOk
    \/ CreateFail
    \/ StreamRead
    \/ StreamEnd
    \/ ReaderWhile
    \/ ReaderResume
    \/ ReaderTail
    \/ ReaderReturn
    \/ UploadPartOk
    \/ UploadPartFail
    \/ RetryLoopExit
    \/ AbortOk
    \/ AbortFail
    \/ CompleteOk
    \/ CompleteFail
    \/ MultiSignOk
    \/ MultiSignFail
    \/ Then
    \/ CatchHandler
    \/ Finally

Spec == Init /\ [][Next]_vars

----------------------------------------------------------------------------
(* Runs of the action one after the other on the same bucket *)

\* The action is run again on the same inputs and files: a new process
\* starts from the module's top level; only the bucket is what the earlier
\* run left.
Restart ==
    /\ pc = "done"
    /\ runNo < MaxRuns
    /\ runNo' = runNo + 1
    /\ pc' = "loop"
    /\ i' = 0
    /\ urls' = {}
    /\ err' = NoError
    /\ rejection' = NoError
    /\ created' = FALSE
    /\ Parts' = << >>
    /\ partNumber' = 0
    /\ retries' = 0
    /\ bytesRead' = 0
    /\ chunk' = EmptyBuffer
    /\ reader' = NewReader
    /\ yielded' = << >>
    /\ inFlight' = {}
    /\ calls' = << >>
    /\ storeCalls' = [j \in DOMAIN files |-> 0]
    /\ invoked' = [j \in DOMAIN files |-> << >>]
    /\ sessions' = [j \in DOMAIN files |-> NewSession]
    /\ thrown' = [j \in DOMAIN files |-> NoError]
    /\ outcome' = [j \in DOMAIN files |-> "pending"]
    /\ outputs' = << >>
    /\ destroyed' = 0
    /\ UNCHANGED <<config, inputs, store, files>>

\* The runs start with multipart-size 1 or the default, max-tries 1, a
\* destination prefix and the concurrency input clear.
InitRerun ==
    /\ Init
    /\ config.maxTries = 1
    /\ config.destinationDir = <<"out">>
    /\ ~inputs.multipartConcurrent
    /\ config.multiPartSize >= 1

NextRerun == Next \/ Restart

SpecRerun == InitRerun /\ [][NextRerun]_vars

----------------------------------------------------------------------------
(* Every step that can be taken is taken in the end: each store call       *)
(* returns or rejects, and the event loop runs every continuation.         *)

SpecFair == Spec /\ WF_vars(Next)

----------------------------------------------------------------------------
(* Files of several chunks, for the chunk reader *)

ReaderFileSizes == FileSizes \cup {20 * MB, 25 * MB}

ReaderFileLists ==
    {fl \in UNION {[1..n -> [name : FileNames, size : ReaderFileSizes]
                            \cup [name : KeepNames, size : {0}]] :
                       n \in 0..MaxFiles} :
        \A j, k \in DOMAIN fl : j < k => Before(fl[j].name, fl[k].name)}

\* Every file that is not empty is over the threshold (multipart-size 1 sends
\* the files of up to 1 MiB through putObject, -1 sends every file through
\* uploadMultiPart); max-tries is 1 and there is no destination prefix.
InitReader ==
    /\ InitOver(ReaderFileLists)
    /\ config.multiPartSize <= 1
    /\ config.maxTries = 1
    /\ config.destinationDir = << >>
    /\ ~inputs.multipartConcurrent

SpecReader == InitReader /\ [][Next]_vars

----------------------------------------------------------------------------
(* Vocabulary of the properties *)

\* The positions inside uploadMultiPart
MultiPcs == {"create", "read", "send", "abort", "complete", "sign"}

\* uploadMultiPart was called for file f and has returned or thrown.
MultiLeft(f) ==
    /\ invoked[f] = <<"uploadMultiPart">>
    /\ f < i \/ (f = i /\ pc \notin MultiPcs)

\* The store calls of the current upload that satisfy a condition on
\* operation, part number and success.
CallsOf(op, pn, ok) ==
    {n \in DOMAIN calls :
        calls[n].op = op /\ calls[n].part = pn /\ calls[n].ok = ok}

CallsOp(op) == {n \in DOMAIN calls : calls[n].op = op}

\* ceil(size / chunkSize): the number of chunks a file is split into
NumChunks(size) == (size + chunkSize - 1) \div chunkSize

\* The error is the 412 answer of the store.
Is412(e) == e.meta /\ e.status = 412

\* The upload of file f threw an error that is not a 412.
Fatal(f) == thrown[f] # NoError /\ ~Is412(thrown[f])

HasOutput(name, value) ==
    \E k \in DOMAIN outputs :
        outputs[k].name = name /\ outputs[k].value = value

----------------------------------------------------------------------------
(* C1: when uploadMultiPart has returned or thrown after a successful      *)
(* create call, its session had a successful completion call or an abort   *)
(* call issued, and not both.  The code violates it: a rejected completion *)
(* call leaves the session neither completed nor aborted.                  *)
C1_CompletedXorAborted ==
    \A f \in DOMAIN files :
        (sessions[f].created /\ MultiLeft(f))
            => ((sessions[f].completes > 0) # (sessions[f].aborts > 0))

(* C2: the part list of a successful completion call for a file of k       *)
(* chunks has k entries, entry j carrying part number j and the ETag       *)
(* answered to a successful send of part j, whatever retries were needed.  *)
C2_CompletionPartList ==
    \A n \in DOMAIN calls :
        (calls[n].op = "complete" /\ calls[n].ok) =>
            LET ps == calls[n].parts
            IN  /\ Len(ps) = NumChunks(files[i].size)
                /\ \A j \in DOMAIN ps :
                      /\ ps[j].PartNumber = j
                      /\ ps[j].ETag \in CallsOf("uploadPart", j, TRUE)

\* A two-part upload completed although a send had to be retried.
C2_Witness ==
    /\ \E n \in CallsOp("complete") : calls[n].ok /\ Len(calls[n].parts) = 2
    /\ \E pn \in 1..2 : CallsOf("uploadPart", pn, FALSE) # {}

(* C3: after maxTries failed sends of a part, uploadMultiPart has made     *)
(* exactly maxTries sends for it, issued an abort call, thrown the error   *)
(* naming the file and the part, sent no later part and issued no          *)
(* completion call.  The code violates it when the abort call rejects      *)
(* (C5): the error thrown is then the abort call's.                        *)
C3_RetryExhaustion ==
    \A pn \in 1..partNumber :
        (/\ i >= 1
         /\ MultiLeft(i)
         /\ config.maxTries >= 1
         /\ Cardinality(CallsOf("uploadPart", pn, FALSE)) = config.maxTries)
        => /\ CallsOf("uploadPart", pn, TRUE) = {}
           /\ CallsOp("abort") # {}
           /\ thrown[i] = PartError(i, pn)
           /\ \A n \in CallsOp("uploadPart") : calls[n].part <= pn
           /\ CallsOp("complete") = {}

(* C4: a send that succeeds after exactly maxTries - 1 failures records    *)
(* the part once, with its number and the ETag of that send, issues no     *)
(* abort call and goes on with the next chunk; and the completion call is  *)
(* reached with every part recorded and no abort issued.                   *)
C4_LastTrySucceeds ==
    /\ [][(/\ pc = "send"
           /\ config.maxTries >= 1
           /\ retries = config.maxTries - 1
           /\ Len(calls') = Len(calls) + 1
           /\ calls'[Len(calls')].op = "uploadPart"
           /\ calls'[Len(calls')].ok)
          => /\ Len(Parts') = Len(Parts) + 1
             /\ \A j \in DOMAIN Parts' :
                   Parts'[j].PartNumber = partNumber <=> j = Len(Parts')
             /\ Parts'[Len(Parts')].ETag = Len(calls')
             /\ CallsOp("abort")' = {}
             /\ sessions'[i].aborts = 0
             /\ pc' = "read"]_vars
    /\ [](pc = "complete" =>
             /\ Len(Parts) = NumChunks(files[i].size)
             /\ sessions[i].aborts = 0)

\* A session was completed after a part needed all its maxTries attempts
\* (maxTries > 1).
C4_Witness ==
    /\ i >= 1
    /\ config.maxTries > 1
    /\ sessions[i].completes = 1
    /\ \E pn \in 1..partNumber :
          /\ Cardinality(CallsOf("uploadPart", pn, FALSE)) = config.maxTries - 1
          /\ CallsOf("uploadPart", pn, TRUE) # {}

(* C5: when the abort call issued after retry exhaustion rejects, the      *)
(* error leaving uploadMultiPart and the run is the part error, the file   *)
(* is not skipped and the run fails with the part error's message.  The    *)
(* code violates it: the abort call's error is what propagates.            *)
C5_AbortFailureNotMasking ==
    (/\ i >= 1
     /\ MultiLeft(i)
     /\ config.maxTries >= 1
     /\ Cardinality(CallsOf("uploadPart", partNumber, FALSE)) = config.maxTries
     /\ CallsOf("abort", 0, FALSE) # {})
    => /\ thrown[i] = PartError(i, partNumber)
       /\ outcome[i] # "skipped"
       /\ pc = "done" =>
             HasOutput("setFailed", Message(PartError(i, partNumber)))

(* C6: a 412 answer of the store to a file's upload makes the driver skip  *)
(* the file: nothing is thrown out of run, no signal is emitted, and the   *)
(* loop goes on with the next file of the queue.                           *)
C6_PreconditionFailedIsSkip ==
    /\ [][(pc = "catch" /\ err.meta /\ err.status = 412)
          => /\ pc' = "loop"
             /\ i' = i
             /\ outcome'[i] = "skipped"
             /\ rejection' = NoError
             /\ outputs' = outputs]_vars
    /\ [][(/\ pc = "loop"
           /\ i >= 1
           /\ i < Len(files)
           /\ outcome[i] = "skipped")
          => i' = i + 1 /\ pc' \in {"loop", "create", "put"}]_vars
    /\ [](\A f \in DOMAIN files :
             outcome[f] = "skipped" => ~HasOutput("result", "failure") \/ f < i)

\* A run that skipped its first file on a 412, went on to upload the
\* second and ended with the success signal.
C6_Witness ==
    /\ pc = "done"
    /\ Len(files) = 2
    /\ outcome[1] = "skipped"
    /\ outcome[2] = "ok"
    /\ HasOutput("result", "success")

(* C7: the only error the driver recovers from is the 412 answer to the    *)
(* single-shot put; a file handed to uploadMultiPart is never skipped.     *)
(* The code violates it: its catch swallows a 412 of any store call of     *)
(* the multipart path.                                                     *)
C7_OnlyPutIsSkipped ==
    \A f \in DOMAIN files :
        outcome[f] = "skipped" =>
            /\ invoked[f] = <<"putObject">>
            /\ thrown[f] = ServiceError("put", f, 412)

(* C8: once the upload of a file has thrown an error that is not a 412 and *)
(* the catch of run has seen it, that file stays the last one started: no  *)
(* later file has an uploader called or a store call made, the run is in   *)
(* its failure handlers, and it ends with the failure signal and the       *)
(* message of that error.                                                  *)
C8_FatalStopsQueue ==
    \A f \in DOMAIN files :
        (Fatal(f) /\ ~(pc = "catch" /\ i = f)) =>
            /\ i = f
            /\ pc \in {"rejected", "finally", "done"}
            /\ \A g \in DOMAIN files :
                  g > f => /\ storeCalls[g] = 0
                           /\ invoked[g] = << >>
                           /\ outcome[g] = "pending"
            /\ pc = "done" =>
                  /\ HasOutput("result", "failure")
                  /\ HasOutput("setFailed", Message(thrown[f]))
                  /\ ~HasOutput("result", "success")

\* A run ended by a fatal error of its first file with a file left over.
C8_Witness ==
    /\ pc = "done"
    /\ Len(files) = 2
    /\ Fatal(1)
    /\ outcome[2] = "pending"
    /\ ~IncludesGitkeep(FileKey(files[2], config))

\* The positions of the outputs named 'file-urls'
UrlOutputs == {k \in DOMAIN outputs : outputs[k].name = "file-urls"}

(* C9 as stated: with URL output enabled, every run that ends has emitted  *)
(* the result mapping, also the run stopped by a fatal error.  The code    *)
(* violates it: a rejected run emits no mapping.                           *)
C9_UrlsEmittedInEveryRun ==
    (pc = "done" /\ config.outputFileUrl) =>
        \E k \in UrlOutputs : outputs[k].value = urls

(* C9 amended: the result mapping is emitted exactly in the runs that have *)
(* URL output enabled and processed all files without a fatal error, once, *)
(* before the success signal and holding the entries recorded; a run       *)
(* stopped by a fatal error emits the failure signal and no mapping.       *)
C9_UrlsEmittedOnSuccessOnly ==
    pc = "done" =>
        IF \E f \in DOMAIN files : Fatal(f)
        THEN /\ UrlOutputs = {}
             /\ HasOutput("result", "failure")
        ELSE /\ HasOutput("result", "success")
             /\ IF config.outputFileUrl
                THEN /\ Len(outputs) = 2
                     /\ outputs[1] = [name |-> "file-urls", value |-> urls]
                ELSE UrlOutputs = {}

\* A run with URL output enabled that recorded an entry, then stopped on a
\* fatal error without emitting the mapping.
C9_Witness ==
    /\ pc = "done"
    /\ config.outputFileUrl
    /\ urls # {}
    /\ \E f \in DOMAIN files : Fatal(f)
    /\ UrlOutputs = {}

(* C10: every file the loop has taken and not excluded had exactly one     *)
(* uploader called: putObject when its size is at most multiPartSize MB    *)
(* (the threshold included), uploadMultiPart when it is above; and the     *)
(* store calls made for it are those of that uploader.                     *)
C10_SizeDispatch ==
    /\ \A f \in DOMAIN files :
          IF f <= i /\ outcome[f] # "excluded"
          THEN invoked[f] =
                  << IF files[f].size <= config.multiPartSize * MB
                     THEN "putObject" ELSE "uploadMultiPart" >>
          ELSE invoked[f] = << >>
    /\ \A n \in DOMAIN calls :
          IF files[i].size <= config.multiPartSize * MB
          THEN calls[n].op \in {"put", "getSignedUrl"}
          ELSE calls[n].op \in {"create", "uploadPart", "abort", "complete",
                                "getSignedUrl"}

\* A file exactly at the threshold was put in one shot and a file above it
\* went through a multipart session.
C10_Witness ==
    \E f, g \in DOMAIN files :
        /\ files[f].size = config.multiPartSize * MB
        /\ invoked[f] = <<"putObject">>
        /\ storeCalls[f] > 0
        /\ invoked[g] = <<"uploadMultiPart">>
        /\ sessions[g].created

----------------------------------------------------------------------------
\* The upload-part calls in flight
PartsInFlight == {c \in inFlight : c.op = "uploadPart"}

\* The positions inside an uploader
UploadPcs == MultiPcs \cup {"put", "signPut"}

\* The outcomes of a file whose upload is over
Finished == {"excluded", "ok", "skipped", "failed"}

(* C11: with the concurrent-parts input set, uploadMultiPart does not wait *)
(* for a part's upload while chunks are still to be dispatched; with the   *)
(* input clear, at most one part upload is in flight.  The code violates   *)
(* the first half: index.ts never reads the input and awaits every send.   *)
C11_ConcurrentPartsFlag ==
    /\ inputs.multipartConcurrent =>
          ~(/\ pc = "send"
            /\ \E c \in PartsInFlight :
                  c.part < NumChunks(files[i].size))
    /\ ~inputs.multipartConcurrent => Cardinality(PartsInFlight) <= 1

(* C12: files are processed one at a time in enumeration order: a store    *)
(* call is made, or in flight, only for the file the loop is at, after     *)
(* every earlier file was excluded or had its upload finished, and no two  *)
(* files have calls in flight together.                                    *)
C12_OneFileAtATime ==
    /\ [](\A c \in inFlight :
             /\ c.file = i
             /\ outcome[i] = "pending"
             /\ \A g \in 1..(i - 1) : outcome[g] \in Finished \ {"failed"})
    /\ [](Cardinality(inFlight) <= 1)
    /\ [](\A f \in DOMAIN files :
             (invoked[f] # << >> \/ storeCalls[f] > 0) => f <= i)
    /\ [][\A f \in DOMAIN files :
             storeCalls'[f] # storeCalls[f] =>
                /\ f = i
                /\ storeCalls'[f] = storeCalls[f] + 1
                /\ \E c \in inFlight : c.file = f
                /\ \A g \in 1..(f - 1) : outcome[g] \in Finished \ {"failed"}]_vars

\* The second file has a call in flight after the first was uploaded.
C12_Witness ==
    /\ i = 2
    /\ outcome[1] = "ok"
    /\ storeCalls[1] > 0
    /\ \E c \in inFlight : c.file = 2

\* The upload of file f was called and has returned a url.
Returned(f) ==
    /\ invoked[f] # << >>
    /\ thrown[f] = NoError
    /\ f < i \/ (f = i /\ pc \notin UploadPcs)

(* C13: the result map has an entry for exactly the files whose upload has *)
(* returned: one entry per such file, none for a file that was excluded,   *)
(* skipped on a 412 or failed, and no entry is removed or replaced later.  *)
C13_ResultMap ==
    /\ [](\A f \in DOMAIN files :
             /\ Returned(f) <=> \E p \in urls : p[1] = f
             /\ Cardinality({p \in urls : p[1] = f}) <= 1
             /\ outcome[f] \in {"excluded", "skipped", "failed"} =>
                   ~\E p \in urls : p[1] = f)
    /\ [](\A p \in urls :
             p[1] \in DOMAIN files /\ p[2] = FileKey(files[p[1]], config))
    /\ [][urls \subseteq urls']_vars

\* The entry of the first file is still there after the second was skipped.
C13_Witness ==
    /\ pc = "done"
    /\ Len(files) = 2
    /\ \E p \in urls : p[1] = 1
    /\ Is412(thrown[2])
    /\ outcome[2] = "skipped"

\* The bucket holds, at the key of file f, an object whose content hash is
\* that of the file.
Identical(f) ==
    \E o \in store :
        /\ o.key = FileKey(files[f], config)
        /\ o.etag = PutETag(Content(files[f]))

(* C14: when the bucket already holds the file's content at its key, the   *)
(* put of putObject never succeeds and writes nothing, and once the store  *)
(* has answered 412 the driver skips the file: no error leaves run, no     *)
(* entry is recorded and the stored object stays as it was.                *)
C14_IdempotentPut ==
    /\ [][(pc = "put" /\ Identical(i))
          => /\ pc' = "catch"
             /\ store' = store
             /\ ~calls'[Len(calls')].ok]_vars
    /\ [][(/\ pc = "catch"
           /\ invoked[i] = <<"putObject">>
           /\ Identical(i)
           /\ Is412(err))
          => /\ pc' = "loop"
             /\ outcome'[i] = "skipped"
             /\ store' = store
             /\ urls' = urls
             /\ rejection' = NoError]_vars
    /\ [](\A f \in DOMAIN files :
             (outcome[f] = "ok" /\ invoked[f] = <<"putObject">>)
                => /\ Identical(f)
                   /\ f = i => \E n \in CallsOp("put") : calls[n].ok)

\* The second run skipped the file that the first run had put, and ended
\* with the success signal.
C14_Witness ==
    /\ runNo = 2
    /\ pc = "done"
    /\ Len(files) >= 1
    /\ invoked[1] = <<"putObject">>
    /\ Identical(1)
    /\ outcome[1] = "skipped"
    /\ thrown[1] = ServiceError("put", 1, 412)
    /\ HasOutput("result", "success")

\* The bytes of the file from its start up to the end of the n-th yielded
\* buffer, when the first n buffers lie one after the other from offset 0.
Contiguous(n) ==
    \A j \in 1..n :
        yielded[j].off = (IF j = 1 THEN 0
                          ELSE yielded[j - 1].off + yielded[j - 1].len)

(* C15: the buffers readFixedChunkSize yields lie one after the other      *)
(* from the start of the file, none is empty, every buffer but the last    *)
(* has exactly chunkSize bytes, and when the reader has returned they      *)
(* cover exactly the size bytes of the file, the last one having           *)
(* size mod chunkSize bytes, or chunkSize when size is a positive          *)
(* multiple of it; a file of 0 bytes yields nothing.                       *)
C15_ChunkReaderRoundTrip ==
    pc \in {"read", "send", "abort", "complete", "sign"} =>
        LET n == Len(yielded)
            size == files[i].size
        IN  /\ Contiguous(n)
            /\ \A j \in 1..n :
                  /\ yielded[j].len > 0
                  /\ yielded[j].len <= chunkSize
                  /\ j < n => yielded[j].len = chunkSize
                  /\ yielded[j].off + yielded[j].len <= size
            /\ reader.state = "end" =>
                  /\ n = NumChunks(size)
                  /\ size = 0 => n = 0
                  /\ size > 0 =>
                        /\ yielded[n].off + yielded[n].len = size
                        /\ yielded[n].len =
                              (IF size % chunkSize = 0 THEN chunkSize
                               ELSE size % chunkSize)

\* A file of 25 MiB was read in reads of 6 and 16 MiB and the reader has
\* returned after three buffers, two of them cut from one read.
C15_Witness ==
    /\ pc = "complete"
    /\ reader.state = "end"
    /\ files[i].size = 25 * MB
    /\ Len(yielded) = 3
    /\ yielded[3] = [off |-> 20 * MB, len |-> 5 * MB]

\* The requests that name a multipart session (or open it).
SessionOps == {"create", "uploadPart", "complete", "abort"}

C17_ZeroByteNeverMultipart ==
    /\ \A f \in DOMAIN files :
          files[f].size = 0 =>
              /\ invoked[f] # <<"uploadMultiPart">>
              /\ ~sessions[f].created
    /\ \A n \in CallsOp("complete") : calls[n].parts # << >>

(* C18: a file is left out exactly when its name has the keep marker: a    *)
(* file with the marker in its name causes no store call and gets no       *)
(* entry, and a file without it is never left out.  The code violates the  *)
(* second half: it looks for the marker in the whole key, destination      *)
(* prefix included.                                                        *)
C18_KeepMarkerByName ==
    \A f \in DOMAIN files :
        IF IncludesGitkeep(FileName(files[f], config))
        THEN /\ outcome[f] \in {"pending", "excluded"}
             /\ storeCalls[f] = 0
             /\ invoked[f] = << >>
             /\ ~\E p \in urls : p[1] = f
        ELSE outcome[f] # "excluded"

\* The session of file f was created and has had neither a successful
\* completion call nor an abort call.
Open(f) ==
    /\ sessions[f].created
    /\ sessions[f].completes = 0
    /\ sessions[f].aborts = 0

(* C19: at most one session is open, and no session of a file before the   *)
(* one the driver is at is open.  The code violates it: a completion call  *)
(* rejected with 412 leaves the session open (C1) and the driver skips the *)
(* file and goes on (C7).                                                  *)
C19_OneOpenSession ==
    /\ Cardinality({f \in DOMAIN files : Open(f)}) <= 1
    /\ \A f \in DOMAIN files : f < i => ~Open(f)

\* The 'result' outputs emitted so far.
Signals == {k \in DOMAIN outputs : outputs[k].name = "result"}

(* C20: every run reaches the end, where exactly one 'result' output has   *)
(* been emitted, success or failure; never are both emitted; and the       *)
(* client is destroyed exactly once, after that output.                    *)
C20_Termination ==
    /\ <>(pc = "done")
    /\ [](pc = "done" =>
             /\ Cardinality(Signals) = 1
             /\ HasOutput("result", "success") # HasOutput("result", "failure")
             /\ HasOutput("result", "failure") <=> rejection # NoError
             /\ destroyed = 1)
    /\ [](/\ Cardinality(Signals) <= 1
          /\ destroyed <= 1
          /\ destroyed = 1 => Cardinality(Signals) = 1)
    /\ [][destroyed' # destroyed =>
             (destroyed' = 1 /\ Cardinality(Signals) = 1 /\ outputs' = outputs)]_vars

\* A run of two files ended with the failure signal after the abort call of
\* the second file was rejected, and the client has been destroyed.
C20_Witness ==
    /\ pc = "done"
    /\ destroyed = 1
    /\ Len(files) = 2
    /\ outcome[1] = "ok"
    /\ \E n \in CallsOp("abort") : ~calls[n].ok
    /\ HasOutput("result", "failure")
    /\ ~HasOutput("result", "success")

====
